---- MODULE Spec2Model ----
(***************************************************************************)
(* JackPress image optimizer (src/source/main.py): the batch compression   *)
(* pipeline.  One Worker thread (Worker.run) validates the configuration,  *)
(* collects the input files, submits one task per file to a thread pool,   *)
(* consumes the completions and emits Qt signals; the pool's threads run   *)
(* Worker.process_file; the MainWindow starts the worker, cancels it and   *)
(* receives its signals.                                                   *)
(*                                                                         *)
(* Paths are relative to the input root: a path is a sequence of names, a  *)
(* name is a sequence of one-character strings.                            *)
(***************************************************************************)
EXTENDS Integers, Sequences, FiniteSets, TLC

\* ------------------------------------------------------------------ bounds

\* How many entries of EntryList the input tree of a batch run holds.
MaxEntries == 4

\* Threads of the pool (os.cpu_count() on the machine).
MaxWorkers == 2

\* How far outside 1..100 the compression levels given to the quality mapper go.
LevelSlack == 3

\* --------------------------------------------------------------- constants

MIN_QUALITY == 10

MAX_QUALITY == 95

\* The level the window's spin box starts with.
DefaultLevel == 80

\* Constants.OUTPUT_FOLDER, "jackpressed"
OUTPUT_FOLDER == <<"j", "a", "c", "k", "p", "r", "e", "s", "s", "e", "d">>

\* ------------------------------------------------------------------- names

UpperChars == <<"A", "B", "C", "D", "E", "F", "G", "H", "I", "J", "K", "L", "M",
                "N", "O", "P", "Q", "R", "S", "T", "U", "V", "W", "X", "Y", "Z">>

LowerChars == <<"a", "b", "c", "d", "e", "f", "g", "h", "i", "j", "k", "l", "m",
                "n", "o", "p", "q", "r", "s", "t", "u", "v", "w", "x", "y", "z">>

\* str.lower() on one character
LowerChar(c) ==
    IF \E i \in 1..Len(UpperChars) : UpperChars[i] = c
    THEN LowerChars[CHOOSE i \in 1..Len(UpperChars) : UpperChars[i] = c]
    ELSE c

\* str.lower()
Lower(s) == [i \in 1..Len(s) |-> LowerChar(s[i])]

\* str.rfind('.') + 1: the place of the last dot of a name, 0 when it has none.
RFindDot(name) ==
    IF \E i \in 1..Len(name) : name[i] = "."
    THEN CHOOSE i \in 1..Len(name) :
             name[i] = "." /\ \A j \in (i+1)..Len(name) : name[j] # "."
    ELSE 0

\* PurePath.suffix: the last dot-part of the final name; none when the name
\* starts with its only dot or ends with a dot.
Suffix(path) ==
    LET name == path[Len(path)]
        i == RFindDot(name)
    IN  IF 1 < i /\ i < Len(name) THEN SubSeq(name, i, Len(name)) ELSE <<>>

\* PurePath.parents: the proper ancestors of a path, the root (<<>>) included.
Parents(path) == { SubSeq(path, 1, k) : k \in 0..(Len(path) - 1) }

ExtPng == <<".", "p", "n", "g">>

ExtJpg == <<".", "j", "p", "g">>

ExtJpeg == <<".", "j", "p", "e", "g">>

\* ------------------------------------------------------- the quality mapper

Max(a, b) == IF a >= b THEN a ELSE b

Min(a, b) == IF a <= b THEN a ELSE b

\* A faulty variant of CalculateQuality: neither the level nor the result is
\* clamped.
CalculateQualityMut(compression_level) ==
    LET n == compression_level - 1
        quality == MIN_QUALITY + ((n * n * (MAX_QUALITY - MIN_QUALITY)) \div (99 * 99))
    IN  quality

\* JPEGCompressionStrategy._calculate_quality.  normalized**2 * 85 is
\* (level-1)^2 * 85 / 9801; int() truncates a value that is >= 0, and the
\* quotient is a whole number only at levels 1 and 100, where the float
\* arithmetic is exact, so the float result equals the integer quotient.
CalculateQuality(compression_level) ==
    LET level == Max(1, Min(100, compression_level))
        n == level - 1
        quality == MIN_QUALITY + ((n * n * (MAX_QUALITY - MIN_QUALITY)) \div (99 * 99))
    IN  Max(MIN_QUALITY, Min(quality, MAX_QUALITY))

\* ---------------------------------------------------------------- the tree

\* The entries a batch run's input tree is drawn from, in the order rglob('*')
\* lists them: pictures of both formats, an output of an earlier run, a
\* picture in a sub-directory with an upper-case suffix.
EntryList == <<
    [path |-> <<<<"a", ".", "p", "n", "g">>>>, isDir |-> FALSE],
    [path |-> <<<<"b", ".", "j", "p", "g">>>>, isDir |-> FALSE],
    [path |-> <<<<"j", "a", "c", "k", "p", "r", "e", "s", "s", "e", "d">>, <<"a", ".", "p", "n", "g">>>>, isDir |-> FALSE],
    [path |-> <<<<"s", "u", "b">>, <<"c", ".", "P", "N", "G">>>>, isDir |-> FALSE],
    [path |-> <<<<"d", ".", "j", "p", "e", "g">>>>, isDir |-> FALSE],
    [path |-> <<<<"e", ".", "j", "p", "g">>>>, isDir |-> FALSE]
>>

\* More entries for the collector: a text file, a dot-file named ".png", a
\* picture below a nested directory named like the output folder, a
\* directory whose name ends in .png, an earlier output in a sub-directory.
ExtraEntries == <<
    [path |-> <<<<"c", ".", "t", "x", "t">>>>, isDir |-> FALSE],
    [path |-> <<<<".", "p", "n", "g">>>>, isDir |-> FALSE],
    [path |-> <<<<"s", "u", "b">>, <<"j", "a", "c", "k", "p", "r", "e", "s", "s", "e", "d">>, <<"e", ".", "p", "n", "g">>>>, isDir |-> FALSE],
    [path |-> <<<<"x", ".", "p", "n", "g">>>>, isDir |-> TRUE],
    [path |-> <<<<"j", "a", "c", "k", "p", "r", "e", "s", "s", "e", "d">>, <<"s", "u", "b">>, <<"f", ".", "j", "p", "g">>>>, isDir |-> FALSE]
>>

\* ----------------------------------------------------------------- the state

VARIABLES
    \* the environment
    dirExists,      \* config.input_dir.exists()
    listing,        \* what input_dir.rglob('*') lists, in its order
    toolPresent,    \* the executables that exist in the tools directory
    fsFiles,        \* the paths below the input root that are files now
    \* the Worker
    cfg,            \* Worker.config
    pc,             \* where Worker.run is
    isCanceled,     \* Worker._is_canceled
    files,          \* run's files
    total,          \* run's total
    processed,      \* ProgressTracker.processed
    task,           \* per file: the state of its future / of process_file,
                    \* how often it was submitted and how often started
    workQueue,      \* the pool's queue of submitted tasks not yet picked up
    yielded,        \* the futures as_completed has yielded so far
    cur,            \* the future of the loop's current iteration (0: none)
    exc,            \* the exception leaving the with block ("": none)
    toolCache,      \* Compressor._TOOL_CACHE
    \* what was emitted and done
    progressEvents, \* the values progress_updated emitted, in order
    etaEvents,      \* how many times eta_updated was emitted
    startedNames,   \* the names file_processed emitted
    errorEmitted,   \* the messages error_occurred emitted, in order
    finishedEmitted,\* how many times finished was emitted
    fsOps,          \* every mkdir, write and unlink the tasks performed
    spawned,        \* the tasks that started a subprocess
    cancelObserved, \* the loop has read _is_canceled as True
    \* the MainWindow
    sigQueue,       \* error_occurred / finished emissions not yet delivered
    errors,         \* MainWindow._errors
    button,         \* compression_Button's text
    dialog,         \* the message box _on_processing_finished showed
    \* the quality mapper applied to a pair of levels
    levels,
    qualities

envVars == <<dirExists, listing, toolPresent>>

workerVars == <<cfg, pc, isCanceled, files, total, processed, yielded, cur, exc,
                cancelObserved>>

poolVars == <<task, workQueue, toolCache, fsFiles, fsOps, spawned, startedNames>>

signalVars == <<progressEvents, etaEvents, errorEmitted, finishedEmitted, sigQueue>>

windowVars == <<errors, button, dialog>>

mapperVars == <<levels, qualities>>

vars == <<envVars, workerVars, poolVars, signalVars, windowVars, mapperVars>>

\* ------------------------------------------------------------ configuration

ToolNames == {"oxipng.exe", "pngquant.exe"}

\* The CompressionConfig values a Worker is constructed with.  keep_original_size,
\* target_width and preserve_alpha only shape the picture and the tool's
\* arguments; they decide no step of the pipeline and are left out.
Configs ==
    [process_png : BOOLEAN, process_jpg : BOOLEAN,
     png_tool : {"oxipng", "pngquant"}, compression_level : {DefaultLevel}]

NoConfig ==
    [process_png |-> FALSE, process_jpg |-> FALSE,
     png_tool |-> "pngquant", compression_level |-> DefaultLevel]

\* A faulty variant of ValidateConfig: the check of the formats is left out.
ValidateConfigMut(c, exists) ==
    IF ~exists THEN "Directory not found" ELSE ""

\* Worker._validate_config: the message of the InvalidConfigError it raises,
\* "" when it returns.
ValidateConfig(c, exists) ==
    IF ~exists THEN "Directory not found"
    ELSE IF ~(c.process_png \/ c.process_jpg) THEN "No file formats selected"
    ELSE ""

\* ------------------------------------------------------------ the collector

InSeq(x, s) == \E i \in 1..Len(s) : s[i] = x

\* Worker._get_extensions
GetExtensions(c) ==
    (IF c.process_png THEN <<ExtPng>> ELSE <<>>)
        \o (IF c.process_jpg THEN <<ExtJpg, ExtJpeg>> ELSE <<>>)

\* A faulty variant of Collectable: only the entry's own directory is compared with
\* the output folder.
CollectableMut(c, e) ==
    /\ SubSeq(e.path, 1, Len(e.path) - 1) # <<OUTPUT_FOLDER>>
    /\ InSeq(Lower(Suffix(e.path)), GetExtensions(c))

\* The condition of _collect_files' comprehension.
Collectable(c, e) ==
    /\ <<OUTPUT_FOLDER>> \notin Parents(e.path)
    /\ InSeq(Lower(Suffix(e.path)), GetExtensions(c))

\* Worker._collect_files: the comprehension keeps rglob's order.
CollectFiles(c, entries) == SelectSeq(entries, LAMBDA e : Collectable(c, e))

\* A faulty variant of GetOutputPath: the output folder is left out of the path.
GetOutputPathMut(path) == path

\* Worker._get_output_path: paths are kept relative to the input root, so
\* relative_to(input_dir) leaves the path and the output folder is put in front.
GetOutputPath(path) == <<OUTPUT_FOLDER>> \o path

\* Worker._strategies.get(suffix.lower()): "png", "jpeg" or "none".
StrategyFor(path) ==
    LET sfx == Lower(Suffix(path))
    IN  IF sfx = ExtPng THEN "png"
        ELSE IF sfx \in {ExtJpg, ExtJpeg} THEN "jpeg"
        ELSE "none"

\* The executable _build_command asks get_tool_path for.
ToolName(c) == IF c.png_tool = "oxipng" THEN "oxipng.exe" ELSE "pngquant.exe"

\* base_dir / 'tools' / tool_name
ToolPath(name) == <<"tools", name>>

\* ------------------------------------------------------------------ initial

SubSeqTo(s, n) == SubSeq(s, 1, Min(n, Len(s)))

FilePaths(entries) == { entries[i].path : i \in { j \in 1..Len(entries) : ~entries[j].isDir } }

InitWorker ==
    /\ cfg = NoConfig
    /\ pc = "idle"
    /\ isCanceled = FALSE
    /\ files = <<>>
    /\ total = 0
    /\ processed = 0
    /\ task = <<>>
    /\ workQueue = <<>>
    /\ yielded = {}
    /\ cur = 0
    /\ exc = ""
    /\ toolCache = <<>>
    /\ progressEvents = <<>>
    /\ etaEvents = 0
    /\ startedNames = {}
    /\ errorEmitted = <<>>
    /\ finishedEmitted = 0
    /\ fsOps = {}
    /\ spawned = {}
    /\ cancelObserved = FALSE
    /\ sigQueue = <<>>
    /\ errors = <<>>
    /\ button = "Start Compression"
    /\ dialog = "none"

\* The window is built and no run has started; the input directory exists
\* with its tree or with nothing but the output of an earlier run, or was
\* removed after it was chosen.  The tools directory
\* holds both executables or none: a run resolves only the tool its
\* configuration selects, so the presence of the other one decides nothing.
Init ==
    /\ dirExists \in BOOLEAN
    /\ listing \in IF dirExists
                   THEN {SubSeqTo(EntryList, MaxEntries), SubSeq(EntryList, 3, 3)}
                   ELSE {<<>>}
    /\ toolPresent \in {{}, ToolNames}
    /\ fsFiles = FilePaths(listing)
    /\ InitWorker
    /\ levels = <<DefaultLevel, DefaultLevel>>
    /\ qualities = <<>>

\* ------------------------------------------------------------- the window

\* MainWindow._toggle_processing, no worker running: a Worker is made from the
\* window's configuration, its signals are connected and it is started.
StartProcessing ==
    /\ pc = "idle"
    /\ \E c \in Configs : cfg' = c
    /\ errors' = <<>>
    /\ button' = "Cancel"
    /\ pc' = "validate"
    /\ UNCHANGED <<envVars, poolVars, signalVars, mapperVars, dialog, isCanceled,
                   files, total, processed, yielded, cur, exc, cancelObserved>>

\* The worker's thread is running: started, and run() has not returned.
IsRunning == pc \notin {"idle", "done"}

\* MainWindow._toggle_processing, worker running: Worker.cancel()
CancelProcessing ==
    /\ IsRunning
    /\ isCanceled' = TRUE
    /\ button' = "Start Compression"
    /\ UNCHANGED <<envVars, poolVars, signalVars, mapperVars, errors, dialog, cfg,
                   pc, files, total, processed, yielded, cur, exc, cancelObserved>>

\* The slots of error_occurred (MainWindow._errors.append) and of finished
\* (MainWindow._on_processing_finished), run by the window's thread in the
\* order of the emissions.
DeliverSignal ==
    /\ sigQueue # <<>>
    /\ sigQueue' = Tail(sigQueue)
    /\ IF Head(sigQueue).sig = "error"
       THEN /\ errors' = Append(errors, Head(sigQueue).msg)
            /\ UNCHANGED <<button, dialog>>
       ELSE /\ button' = "Start Compression"
            /\ dialog' = IF errors # <<>> THEN "critical" ELSE "success"
            /\ UNCHANGED errors
    /\ UNCHANGED <<envVars, workerVars, poolVars, mapperVars, progressEvents,
                   etaEvents, errorEmitted, finishedEmitted>>

\* ----------------------------------------------------------- Worker.run

\* self._validate_config(): it returns, or raises into run's except clause.
RunValidate ==
    /\ pc = "validate"
    /\ LET m == ValidateConfig(cfg, dirExists)
       IN  IF m # ""
           THEN exc' = m /\ pc' = "except"
           ELSE exc' = exc /\ pc' = "collect"
    /\ UNCHANGED <<envVars, poolVars, signalVars, windowVars, mapperVars, cfg,
                   isCanceled, files, total, processed, yielded, cur, cancelObserved>>

\* A faulty variant of RunCollect: a first progress value, 0 files of total,
\* is computed before the pool is made.
RunCollectMut ==
    /\ pc = "collect"
    /\ files' = CollectFiles(cfg, listing)
    /\ total' = Len(files')
    /\ processed' = 0
    /\ task' = [k \in 1..Len(files') |->
                    [st |-> "new", err |-> "", submitted |-> 0, started |-> 0]]
    /\ IF Len(files') = 0
       THEN exc' = "division by zero" /\ pc' = "except"
       ELSE exc' = exc /\ pc' = "submit"
    /\ UNCHANGED <<envVars, signalVars, windowVars, mapperVars, cfg, isCanceled,
                   yielded, cur, cancelObserved, workQueue, toolCache, fsFiles,
                   fsOps, spawned, startedNames>>

\* files = self._collect_files(); total = len(files); tracker = ProgressTracker(total)
RunCollect ==
    /\ pc = "collect"
    /\ files' = CollectFiles(cfg, listing)
    /\ total' = Len(files')
    /\ processed' = 0
    /\ task' = [k \in 1..Len(files') |->
                    [st |-> "new", err |-> "", submitted |-> 0, started |-> 0]]
    /\ pc' = "submit"
    /\ UNCHANGED <<envVars, signalVars, windowVars, mapperVars, cfg, isCanceled,
                   yielded, cur, exc, cancelObserved, workQueue, toolCache, fsFiles,
                   fsOps, spawned, startedNames>>

NotSubmitted == { k \in DOMAIN task : task[k].st = "new" }

\* One executor.submit of the comprehension over files, in the order of
\* files; after the last one as_completed(futures) is entered.
SubmitTask ==
    /\ pc = "submit"
    /\ IF NotSubmitted # {}
       THEN LET k == CHOOSE j \in NotSubmitted : \A m \in NotSubmitted : j <= m
            IN  /\ task' = [task EXCEPT ![k].st = "queued",
                                          ![k].submitted = task[k].submitted + 1]
                /\ workQueue' = Append(workQueue, k)
                /\ pc' = pc
       ELSE /\ pc' = "wait"
            /\ UNCHANGED <<task, workQueue>>
    /\ UNCHANGED <<envVars, signalVars, windowVars, mapperVars, cfg, isCanceled,
                   files, total, processed, yielded, cur, exc, cancelObserved,
                   toolCache, fsFiles, fsOps, spawned, startedNames>>

IsDone(k) == task[k].st \in {"ok", "failed"}

\* as_completed yields the next future that is done, whichever it is, and
\* blocks while none is; the for loop ends when every future was yielded.
NextCompleted ==
    /\ pc = "wait"
    /\ \/ /\ yielded = DOMAIN task
          /\ pc' = "shutdown"
          /\ UNCHANGED <<yielded, cur>>
       \/ \E k \in DOMAIN task \ yielded :
            /\ IsDone(k)
            /\ yielded' = yielded \cup {k}
            /\ cur' = k
            /\ pc' = "check"
    /\ UNCHANGED <<envVars, poolVars, signalVars, windowVars, mapperVars, cfg,
                   isCanceled, files, total, processed, exc, cancelObserved>>

\* A faulty variant of CheckCancel: the flag is read and the loop goes on.
CheckCancelMut ==
    /\ pc = "check"
    /\ cancelObserved' = (cancelObserved \/ isCanceled)
    /\ pc' = "result"
    /\ UNCHANGED <<envVars, poolVars, signalVars, windowVars, mapperVars, cfg,
                   isCanceled, files, total, processed, yielded, cur, exc>>

\* if self._is_canceled: break
CheckCancel ==
    /\ pc = "check"
    /\ IF isCanceled
       THEN cancelObserved' = TRUE /\ pc' = "shutdown"
       ELSE cancelObserved' = cancelObserved /\ pc' = "result"
    /\ UNCHANGED <<envVars, poolVars, signalVars, windowVars, mapperVars, cfg,
                   isCanceled, files, total, processed, yielded, cur, exc>>

\* A faulty variant of ProgressValue: the percentage is rounded up.
ProgressValueMut(n, tot) == (n * 100 + tot - 1) \div tot

\* int((i + 1) / total * 100), i + 1 being the number of futures yielded.  The
\* float quotient truncates to the integer quotient for every total below 50.
ProgressValue(n, tot) == (n * 100) \div tot

\* future.result() re-raises the task's exception, which leaves the loop and
\* the with block; otherwise progress_updated is emitted.
FutureResult ==
    /\ pc = "result"
    /\ IF task[cur].st = "failed"
       THEN exc' = task[cur].err /\ pc' = "shutdown" /\ UNCHANGED progressEvents
       ELSE IF total = 0
       THEN exc' = "division by zero" /\ pc' = "shutdown" /\ UNCHANGED progressEvents
       ELSE /\ progressEvents' =
                    Append(progressEvents, ProgressValue(Cardinality(yielded), total))
            /\ pc' = "eta"
            /\ exc' = exc
    /\ UNCHANGED <<envVars, poolVars, windowVars, mapperVars, cfg, isCanceled, files,
                   total, processed, yielded, cur, cancelObserved, etaEvents,
                   errorEmitted, finishedEmitted, sigQueue>>

\* A faulty variant of EmitEta: the ETA is emitted and the file is not counted.
EmitEtaMut ==
    /\ pc = "eta"
    /\ processed' = processed
    /\ etaEvents' = etaEvents + 1
    /\ pc' = "wait"
    /\ UNCHANGED <<envVars, poolVars, windowVars, mapperVars, cfg, isCanceled, files,
                   total, yielded, cur, exc, cancelObserved, progressEvents,
                   errorEmitted, finishedEmitted, sigQueue>>

\* self.eta_updated.emit(tracker.update()): update counts the file, then
\* divides the elapsed time by a count that is at least 1.
EmitEta ==
    /\ pc = "eta"
    /\ processed' = processed + 1
    /\ etaEvents' = etaEvents + 1
    /\ pc' = "wait"
    /\ UNCHANGED <<envVars, poolVars, windowVars, mapperVars, cfg, isCanceled, files,
                   total, yielded, cur, exc, cancelObserved, progressEvents,
                   errorEmitted, finishedEmitted, sigQueue>>

\* A faulty variant of ExitPool: shutdown(wait=True, cancel_futures=True), the
\* tasks still in the queue are dropped.
ExitPoolCancelMut ==
    /\ pc = "shutdown"
    /\ \A k \in DOMAIN task : IsDone(k) \/ task[k].st = "queued"
    /\ workQueue' = <<>>
    /\ task' = [k \in DOMAIN task |->
                  IF task[k].st = "queued"
                  THEN [task[k] EXCEPT !.st = "failed", !.err = "cancelled"]
                  ELSE task[k]]
    /\ pc' = IF exc # "" THEN "except" ELSE "finished"
    /\ UNCHANGED <<envVars, signalVars, windowVars, mapperVars, cfg,
                   isCanceled, files, total, processed, yielded, cur, exc,
                   cancelObserved, toolCache, fsFiles, fsOps, spawned, startedNames>>

\* A faulty variant of ExitPool: shutdown(wait=False).
ExitPoolMut ==
    /\ pc = "shutdown"
    /\ pc' = IF exc # "" THEN "except" ELSE "finished"
    /\ UNCHANGED <<envVars, poolVars, signalVars, windowVars, mapperVars, cfg,
                   isCanceled, files, total, processed, yielded, cur, exc,
                   cancelObserved>>

\* The with block's exit, executor.shutdown(wait=True): it returns when every
\* submitted task has run, then a pending exception goes on to the except
\* clause.
ExitPool ==
    /\ pc = "shutdown"
    /\ \A k \in DOMAIN task : IsDone(k)
    /\ pc' = IF exc # "" THEN "except" ELSE "finished"
    /\ UNCHANGED <<envVars, poolVars, signalVars, windowVars, mapperVars, cfg,
                   isCanceled, files, total, processed, yielded, cur, exc,
                   cancelObserved>>

\* self.finished.emit(), and run returns.
EmitFinished ==
    /\ pc = "finished"
    /\ finishedEmitted' = finishedEmitted + 1
    /\ sigQueue' = Append(sigQueue, [sig |-> "finished", msg |-> ""])
    /\ pc' = "done"
    /\ UNCHANGED <<envVars, poolVars, windowVars, mapperVars, cfg, isCanceled, files,
                   total, processed, yielded, cur, exc, cancelObserved, progressEvents,
                   etaEvents, errorEmitted>>

\* A faulty variant of HandleException: finished is emitted after the error,
\* as a finally clause would.
HandleExceptionMut ==
    /\ pc = "except"
    /\ errorEmitted' = Append(errorEmitted, exc)
    /\ finishedEmitted' = finishedEmitted + 1
    /\ sigQueue' = sigQueue \o <<[sig |-> "error", msg |-> exc],
                                 [sig |-> "finished", msg |-> ""]>>
    /\ pc' = "done"
    /\ UNCHANGED <<envVars, poolVars, windowVars, mapperVars, cfg, isCanceled, files,
                   total, processed, yielded, cur, exc, cancelObserved, progressEvents,
                   etaEvents>>

\* except Exception as e: self.error_occurred.emit(str(e)), and run returns.
HandleException ==
    /\ pc = "except"
    /\ errorEmitted' = Append(errorEmitted, exc)
    /\ sigQueue' = Append(sigQueue, [sig |-> "error", msg |-> exc])
    /\ pc' = "done"
    /\ UNCHANGED <<envVars, poolVars, windowVars, mapperVars, cfg, isCanceled, files,
                   total, processed, yielded, cur, exc, cancelObserved, progressEvents,
                   etaEvents, finishedEmitted>>

\* ------------------------------------------------- Worker.process_file

TaskFrame == UNCHANGED <<envVars, workerVars, signalVars, windowVars, mapperVars>>

InProgress(k) == task[k].st \in {"open", "save", "resolve", "lookup", "spawn"}

\* The output path of task k's file.
OutputOf(k) == GetOutputPath(files[k].path)

\* output_path.parent.mkdir(parents=True, exist_ok=True): the directory and
\* every ancestor of it below the input root.
MkdirOps(k) ==
    LET out == OutputOf(k)
    IN  { [op |-> "mkdir", path |-> SubSeq(out, 1, n), task |-> k, by |-> "mkdir"] :
            n \in 1..(Len(out) - 1) }

Failed(k, msg) == [task EXCEPT ![k].st = "failed", ![k].err = msg]

\* A faulty variant of StartTask: the task is left in the queue, where the
\* next idle thread finds it again.
StartTaskMut(k) ==
    /\ workQueue # <<>>
    /\ k = Head(workQueue)
    /\ Cardinality({ j \in DOMAIN task : InProgress(j) }) < MaxWorkers
    /\ task' = [task EXCEPT ![k].st = "open", ![k].started = task[k].started + 1]
    /\ startedNames' = startedNames \cup {files[k].path[Len(files[k].path)]}
    /\ fsOps' = fsOps \cup MkdirOps(k)
    /\ UNCHANGED <<workQueue, toolCache, fsFiles, spawned>>
    /\ TaskFrame

\* A thread of the pool takes the oldest queued task and enters process_file:
\* file_processed is emitted and the output directory is made.
StartTask(k) ==
    /\ workQueue # <<>>
    /\ k = Head(workQueue)
    /\ Cardinality({ j \in DOMAIN task : InProgress(j) }) < MaxWorkers
    /\ workQueue' = Tail(workQueue)
    /\ task' = [task EXCEPT ![k].st = "open", ![k].started = task[k].started + 1]
    /\ startedNames' = startedNames \cup {files[k].path[Len(files[k].path)]}
    /\ fsOps' = fsOps \cup MkdirOps(k)
    /\ UNCHANGED <<toolCache, fsFiles, spawned>>
    /\ TaskFrame

\* Image.open(file_path) and _process_image: the picture is read and
\* transformed, or an exception ends the task; a directory cannot be opened.
OpenImage(k) ==
    /\ task[k].st = "open"
    /\ \E readable \in BOOLEAN :
         IF readable /\ ~files[k].isDir
         THEN task' = [task EXCEPT ![k].st = "save"]
         ELSE task' = Failed(k, "cannot open image")
    /\ UNCHANGED <<workQueue, toolCache, fsFiles, fsOps, spawned, startedNames>>
    /\ TaskFrame

\* img.save(output_path, ...): the file is opened for writing and encoded.
\* When the encoder fails the file is left behind or removed, as the imaging
\* library's version has it.
WriteOp(k, by, quality) ==
    [op |-> "write", path |-> OutputOf(k), task |-> k, by |-> by, quality |-> quality]

\* _save_image: the strategy of the suffix saves the picture.  JPEG: saved
\* with the mapped quality, and the task is done.  PNG: saved, then the tool
\* is run (_compress_with_tool).
SaveImage(k) ==
    /\ task[k].st = "save"
    /\ LET strategy == StrategyFor(files[k].path)
           quality == IF strategy = "jpeg"
                      THEN CalculateQuality(cfg.compression_level) ELSE 0
       IN  IF strategy = "none"
           THEN /\ task' = Failed(k, "Unsupported format")
                /\ UNCHANGED <<fsFiles, fsOps>>
           ELSE /\ fsOps' = fsOps \cup {WriteOp(k, "save", quality)}
                /\ \E saved \in BOOLEAN :
                     IF saved
                     THEN /\ fsFiles' = fsFiles \cup {OutputOf(k)}
                          /\ task' = [task EXCEPT ![k].st =
                                        IF strategy = "png" THEN "resolve" ELSE "ok"]
                     ELSE /\ fsFiles' \in {fsFiles \cup {OutputOf(k)},
                                           fsFiles \ {OutputOf(k)}}
                          /\ task' = Failed(k, "cannot save image")
    /\ UNCHANGED <<workQueue, toolCache, spawned, startedNames>>
    /\ TaskFrame

\* get_tool_path, its first line: is the tool in the cache?
ResolveTool(k) ==
    /\ task[k].st = "resolve"
    /\ task' = [task EXCEPT ![k].st =
                  IF ToolName(cfg) \in DOMAIN toolCache THEN "spawn" ELSE "lookup"]
    /\ UNCHANGED <<workQueue, toolCache, fsFiles, fsOps, spawned, startedNames>>
    /\ TaskFrame

\* A faulty variant of LookupTool: a worker that finds the entry already
\* written by another one writes the path below another base directory.
LookupToolRaceMut(k) ==
    /\ task[k].st = "lookup"
    /\ IF ToolName(cfg) \notin toolPresent
       THEN /\ task' = Failed(k, "tool not found in tools directory")
            /\ UNCHANGED toolCache
       ELSE /\ toolCache' = (ToolName(cfg) :>
                                IF ToolName(cfg) \in DOMAIN toolCache
                                THEN <<"_MEIPASS", "tools", ToolName(cfg)>>
                                ELSE ToolPath(ToolName(cfg))) @@ toolCache
            /\ task' = [task EXCEPT ![k].st = "spawn"]
    /\ UNCHANGED <<workQueue, fsFiles, fsOps, spawned, startedNames>>
    /\ TaskFrame

\* A faulty variant of LookupTool: the path is cached before it is checked.
LookupToolMut(k) ==
    /\ task[k].st = "lookup"
    /\ toolCache' = (ToolName(cfg) :> ToolPath(ToolName(cfg))) @@ toolCache
    /\ task' = [task EXCEPT ![k].st = "spawn"]
    /\ UNCHANGED <<workQueue, fsFiles, fsOps, spawned, startedNames>>
    /\ TaskFrame

\* get_tool_path, the tool not in the cache: a missing executable raises
\* ToolNotFoundError, an existing one is written to the cache.
LookupTool(k) ==
    /\ task[k].st = "lookup"
    /\ IF ToolName(cfg) \notin toolPresent
       THEN /\ task' = Failed(k, "tool not found in tools directory")
            /\ UNCHANGED toolCache
       ELSE /\ toolCache' = (ToolName(cfg) :> ToolPath(ToolName(cfg))) @@ toolCache
            /\ task' = [task EXCEPT ![k].st = "spawn"]
    /\ UNCHANGED <<workQueue, fsFiles, fsOps, spawned, startedNames>>
    /\ TaskFrame

\* A faulty variant of UnlinkError: unlink without missing_ok.
UnlinkErrorMut(exists) == IF exists THEN "" ELSE "FileNotFoundError"

\* output_path.unlink(missing_ok=True): the exception the call raises, ""
\* for none, given whether the file exists.
UnlinkError(exists) == ""

\* get_tool_path returns the cached path and _run_command runs the tool on
\* the output file: exit code 0 ends the task; any other code unlinks the
\* output file (missing_ok) and raises with the tool's stderr.  A failing
\* tool may or may not have left the file in place (left).
RunTool(k) ==
    /\ task[k].st = "spawn"
    /\ \E returncode \in {0, 1}, left \in BOOLEAN :
         /\ returncode = 0 => left
         /\ spawned' = spawned \cup
                    {[task |-> k, exe |-> toolCache[ToolName(cfg)],
                      target |-> OutputOf(k), rc |-> returncode]}
         /\ IF returncode = 0
            THEN /\ task' = [task EXCEPT ![k].st = "ok"]
                 /\ fsOps' = fsOps \cup {WriteOp(k, "tool", 0)}
                 /\ fsFiles' = fsFiles \cup {OutputOf(k)}
            ELSE /\ task' = Failed(k, IF UnlinkError(left) = ""
                                      THEN "Compression error: stderr"
                                      ELSE UnlinkError(left))
                 /\ fsOps' = fsOps \cup
                       {WriteOp(k, "tool", 0),
                        [op |-> "unlink", path |-> OutputOf(k), task |-> k, by |-> "tool"]}
                 /\ fsFiles' = fsFiles \ {OutputOf(k)}
    /\ UNCHANGED <<workQueue, toolCache, startedNames>>
    /\ TaskFrame

\* -------------------------------------------------------- specifications

Next ==
    \/ StartProcessing
    \/ CancelProcessing
    \/ DeliverSignal
    \/ RunValidate
    \/ RunCollect
    \/ SubmitTask
    \/ NextCompleted
    \/ CheckCancel
    \/ FutureResult
    \/ EmitEta
    \/ ExitPool
    \/ EmitFinished
    \/ HandleException
    \/ \E k \in DOMAIN task : StartTask(k)
    \/ \E k \in DOMAIN task : OpenImage(k)
    \/ \E k \in DOMAIN task : SaveImage(k)
    \/ \E k \in DOMAIN task : ResolveTool(k)
    \/ \E k \in DOMAIN task : LookupTool(k)
    \/ \E k \in DOMAIN task : RunTool(k)

Spec == Init /\ [][Next]_vars

\* The collector alone, on every tree made of the entries above: Worker.run
\* has validated a configuration and is about to collect.
RECURSIVE PickEntries(_, _, _)
PickEntries(s, keep, i) ==
    IF i > Len(s) THEN <<>>
    ELSE (IF i \in keep THEN <<s[i]>> ELSE <<>>) \o PickEntries(s, keep, i + 1)

AllEntries == EntryList \o ExtraEntries

InitCollect ==
    /\ dirExists = TRUE
    /\ \E keep \in SUBSET (1..Len(AllEntries)) :
         listing = PickEntries(AllEntries, keep, 1)
    /\ toolPresent = ToolNames
    /\ fsFiles = FilePaths(listing)
    /\ \E c \in Configs :
         /\ ValidateConfig(c, dirExists) = ""
         /\ c.png_tool = "pngquant"
         /\ cfg = c
    /\ pc = "collect"
    /\ isCanceled = FALSE
    /\ files = <<>>
    /\ total = 0
    /\ processed = 0
    /\ task = <<>>
    /\ workQueue = <<>>
    /\ yielded = {}
    /\ cur = 0
    /\ exc = ""
    /\ toolCache = <<>>
    /\ progressEvents = <<>>
    /\ etaEvents = 0
    /\ startedNames = {}
    /\ errorEmitted = <<>>
    /\ finishedEmitted = 0
    /\ fsOps = {}
    /\ spawned = {}
    /\ cancelObserved = FALSE
    /\ sigQueue = <<>>
    /\ errors = <<>>
    /\ button = "Cancel"
    /\ dialog = "none"
    /\ levels = <<DefaultLevel, DefaultLevel>>
    /\ qualities = <<>>

SpecCollect == InitCollect /\ [][RunCollect]_vars

\* The quality mapper alone, applied to every pair of levels from a range
\* that goes beyond 1..100 on both sides.
LevelRange == (1 - LevelSlack)..(100 + LevelSlack)

InitQuality ==
    /\ dirExists = TRUE
    /\ listing = <<>>
    /\ toolPresent = ToolNames
    /\ fsFiles = {}
    /\ InitWorker
    /\ levels \in LevelRange \X LevelRange
    /\ qualities = <<>>

\* quality = self._calculate_quality(config.compression_level), for both levels
ApplyQuality ==
    /\ qualities = <<>>
    /\ qualities' = <<CalculateQuality(levels[1]), CalculateQuality(levels[2])>>
    /\ UNCHANGED <<envVars, workerVars, poolVars, signalVars, windowVars, levels>>

SpecQuality == InitQuality /\ [][ApplyQuality]_vars

\* ------------------------------------------------------------- properties

FailedTasks == { k \in DOMAIN task : task[k].st = "failed" }

OkTasks == { k \in DOMAIN task : task[k].st = "ok" }

\* The configuration is one _validate_config is to refuse, in the claim's words.
InvalidConfig == ~dirExists \/ (~cfg.process_png /\ ~cfg.process_jpg)

\* C1: in a batch run that is not canceled and in which some file task fails,
\* every task has run to completion when the run ends and the orchestrator
\* has consumed the completion of every other file: one progress event per
\* file that did not fail.
C1_FailSoft ==
    (pc = "done" /\ ~isCanceled /\ ~InvalidConfig /\ FailedTasks # {}) =>
        /\ \A k \in DOMAIN task : IsDone(k)
        /\ Len(progressEvents) = Cardinality(OkTasks)

\* C2: at the end of a batch run that was not canceled, once the window has
\* received the run's signals, its error report holds one message per failed
\* file task: k failures give k messages.
C2_OneMessagePerFailure ==
    (pc = "done" /\ ~isCanceled /\ ~InvalidConfig /\ sigQueue = <<>>) =>
        Len(errors) = Cardinality(FailedTasks)

\* C3: a run that has ended has signalled completion to its consumer: run()
\* never returns without having emitted finished, whether the run completed,
\* was refused for its configuration, had failing files or was canceled.
C3_FinishedAlwaysEmitted ==
    pc = "done" => finishedEmitted >= 1

\* C4: once the loop has read the cancellation flag as set, no step of the
\* run emits a progress percentage or an ETA any more.
C4_NoProgressAfterCancelObserved ==
    [][cancelObserved =>
          (progressEvents' = progressEvents /\ etaEvents' = etaEvents)]_vars

\* C4's case: a run that consumed a completion, then observed the
\* cancellation while a task that succeeded was still unconsumed, and ended.
C4_Witness ==
    /\ pc = "done"
    /\ cancelObserved
    /\ Len(progressEvents) >= 1
    /\ \E k \in DOMAIN task \ yielded : task[k].st = "ok"

\* C5: when run() has left the with block (it is about to emit its terminal
\* signal, has emitted it or has returned), no task of the run is queued or
\* executing in the pool.
C5_PoolDrainedAtTerminal ==
    (pc \in {"finished", "except", "done"} \/ finishedEmitted > 0 \/ errorEmitted # <<>>) =>
        /\ workQueue = <<>>
        /\ \A k \in DOMAIN task : IsDone(k)

\* C5's case: a canceled run of several tasks has ended with completions it
\* never consumed.
C5_Witness ==
    /\ pc = "done"
    /\ cancelObserved
    /\ Len(files) >= 2
    /\ yielded # DOMAIN task

\* C6: with a missing input directory or with no format enabled, a started
\* run collects no file, submits no task, creates no directory or file,
\* emits no progress, ETA or file-started event, and ends having surfaced
\* exactly one error message.
C6_InvalidConfigFailsFast ==
    (pc # "idle" /\ InvalidConfig) =>
        /\ files = <<>> /\ task = <<>> /\ workQueue = <<>>
        /\ fsOps = {} /\ fsFiles = FilePaths(listing) /\ spawned = {}
        /\ progressEvents = <<>> /\ etaEvents = 0 /\ startedNames = {}
        /\ Len(errorEmitted) <= 1
        /\ pc = "done" => Len(errorEmitted) = 1
        /\ (pc = "done" /\ sigQueue = <<>>) => Len(errors) = 1

\* C6's case: a run over an existing tree with neither format enabled has
\* ended and the window holds its one message.
C6_Witness ==
    /\ pc = "done"
    /\ dirExists /\ listing # <<>>
    /\ ~cfg.process_png /\ ~cfg.process_jpg
    /\ errors = <<"No file formats selected">>

\* C7: when the executable of the selected PNG tool is missing, no PNG task
\* gets past the tool-path resolution: none reaches the subprocess, none
\* succeeds or fails with the tool's exit error, no subprocess is spawned, and
\* the cache never holds an entry for the tool.
C7_MissingToolNeverSpawns ==
    (pc # "idle" /\ ToolName(cfg) \notin toolPresent) =>
        /\ spawned = {}
        /\ ToolName(cfg) \notin DOMAIN toolCache
        /\ \A k \in DOMAIN task :
             StrategyFor(files[k].path) = "png" =>
                /\ task[k].st \notin {"spawn", "ok"}
                /\ task[k].err # "Compression error: stderr"

\* C7's case: a PNG task of an ended run failed with the tool-not-found
\* error, the selected tool being absent.
C7_Witness ==
    /\ pc = "done"
    /\ ToolName(cfg) \notin toolPresent
    /\ \E k \in DOMAIN task :
         /\ task[k].st = "failed"
         /\ task[k].err = "tool not found in tools directory"

EnabledExtensions ==
    (IF cfg.process_png THEN {ExtPng} ELSE {})
        \cup (IF cfg.process_jpg THEN {ExtJpg, ExtJpeg} ELSE {})

\* The name ends, in any letter case, with the extension after a non-empty stem.
HasExtension(name, ext) ==
    /\ Len(name) > Len(ext)
    /\ Lower(SubSeq(name, Len(name) - Len(ext) + 1, Len(name))) = ext

\* The entry is one the collector is to return, in the claim's words.
Eligible(e) ==
    /\ \E ext \in EnabledExtensions : HasExtension(e.path[Len(e.path)], ext)
    /\ ~(Len(e.path) >= 2 /\ e.path[1] = OUTPUT_FOLDER)

\* C8: the collector returns exactly the listed entries whose lower-cased
\* extension is enabled and which do not lie inside <root>/jackpressed: every
\* such entry once, and nothing else.
C8_CollectorExact ==
    pc = "submit" =>
        /\ \A i \in 1..Len(listing) : Eligible(listing[i]) <=> InSeq(listing[i], files)
        /\ \A i \in 1..Len(files) : InSeq(files[i], listing)
        /\ \A i, j \in 1..Len(files) : files[i] = files[j] => i = j

\* C8's case: a tree with an earlier output, an upper-case suffix, a text
\* file and a nested directory named like the output folder was collected.
C8_Witness ==
    /\ pc = "submit"
    /\ InSeq(EntryList[3], listing) /\ ~InSeq(EntryList[3], files)
    /\ InSeq(ExtraEntries[5], listing) /\ ~InSeq(ExtraEntries[5], files)
    /\ InSeq(ExtraEntries[1], listing) /\ ~InSeq(ExtraEntries[1], files)
    /\ InSeq(EntryList[4], files)
    /\ InSeq(ExtraEntries[3], files)

\* C9: the JPEG quality is in 10..95, does not decrease when the level grows,
\* and a level below 1 or above 100 gives the quality of 1 or of 100.
C9_QualityMonotoneBounded ==
    qualities # <<>> =>
        /\ qualities[1] \in 10..95 /\ qualities[2] \in 10..95
        /\ levels[1] <= levels[2] => qualities[1] <= qualities[2]
        /\ (levels[1] < 1 /\ levels[2] = 1) => qualities[1] = qualities[2]
        /\ (levels[1] = 100 /\ levels[2] > 100) => qualities[1] = qualities[2]

\* C9's case: the mapper was applied to a level below 1 and to one inside
\* the range, and to them gave different qualities.
C9_Witness ==
    /\ qualities # <<>>
    /\ levels[1] < 1 /\ levels[2] \in 2..99
    /\ qualities[1] < qualities[2]

IsProperPrefix(p, q) == Len(p) < Len(q) /\ p = SubSeq(q, 1, Len(p))

\* C10: every mkdir, write and unlink of a file task targets a path below
\* <root>/jackpressed: writes and unlinks the path jackpressed/<relative path
\* of the task's input>, mkdir a directory above it; none targets a collected
\* input, and every collected input file is still there.
C10_WritesOnlyUnderOutput ==
    /\ \A o \in fsOps :
         /\ Len(o.path) >= 1 /\ o.path[1] = OUTPUT_FOLDER
         /\ o.op \in {"write", "unlink"} =>
                o.path = <<OUTPUT_FOLDER>> \o files[o.task].path
         /\ o.op = "mkdir" =>
                IsProperPrefix(o.path, <<OUTPUT_FOLDER>> \o files[o.task].path)
         /\ \A k \in 1..Len(files) : o.path # files[k].path
    /\ \A k \in 1..Len(files) : ~files[k].isDir => files[k].path \in fsFiles

\* C10's case: a run has ended whose tasks made a sub-directory of the
\* output folder, wrote an output and unlinked one.
C10_Witness ==
    /\ pc = "done"
    /\ \E o \in fsOps : o.op = "mkdir" /\ Len(o.path) = 2
    /\ \E o \in fsOps : o.op = "write"
    /\ \E o \in fsOps : o.op = "unlink"

\* C11 as stated: the k-th progress percentage of a batch of n files is the
\* ceiling of (k/n)*100, the least p with p*n >= 100*k.
C11_ProgressIsCeiling ==
    \A k \in 1..Len(progressEvents) :
        /\ progressEvents[k] * total >= 100 * k
        /\ (progressEvents[k] - 1) * total < 100 * k

\* C11, amended: the k-th progress percentage of a batch of n files is
\* (k/n)*100 truncated to an integer, the greatest p with p*n <= 100*k.
C11_ProgressIsFloor ==
    \A k \in 1..Len(progressEvents) :
        /\ progressEvents[k] * total <= 100 * k
        /\ (progressEvents[k] + 1) * total > 100 * k

\* C11's case: the three completions of a batch of three files were
\* consumed, with percentages that are not whole thirds of 100.
C11_Witness ==
    /\ total = 3
    /\ progressEvents = <<33, 66, 100>>

\* C12: success is reported to the consumer only for a run that drained the
\* completion of every submitted task, none of which failed: a run that
\* observed the cancellation, or in which a file task failed, is never
\* reported as a successful completion.
C12_SuccessOnlyWhenAllSucceeded ==
    dialog = "success" =>
        /\ ~cancelObserved
        /\ yielded = DOMAIN task
        /\ FailedTasks = {}

\* C13: every collected file has one task, submitted exactly once when the
\* submissions are over and never more than once before; a task is started
\* at most once, by one worker, also after it has failed; the queue holds a
\* task at most once and only while it waits.
C13_SubmittedOnceProcessedOnce ==
    /\ DOMAIN task = 1..Len(files)
    /\ \A k \in DOMAIN task :
         /\ task[k].submitted <= 1 /\ task[k].started <= 1
         /\ task[k].st = "new" <=> task[k].submitted = 0
         /\ task[k].st \in {"new", "queued"} <=> task[k].started = 0
         /\ pc \in {"wait", "check", "result", "eta", "shutdown", "finished", "done"}
                => task[k].submitted = 1
         /\ IsDone(k) => task[k].started = 1
    /\ \A i, j \in 1..Len(workQueue) : workQueue[i] = workQueue[j] => i = j
    /\ \A i \in 1..Len(workQueue) : task[workQueue[i]].st = "queued"

\* C13's case: a run of several files has ended, one of its tasks failed,
\* and each task was submitted and started once.
C13_Witness ==
    /\ pc = "done"
    /\ Len(files) >= 2
    /\ FailedTasks # {}
    /\ \A k \in DOMAIN task : task[k].submitted = 1 /\ task[k].started = 1

\* C14: a PNG tool that exits non-zero ends its task as a failure carrying
\* the tool's stderr, and no file is at the task's output path afterwards,
\* whether or not the tool had left one; a tool that exits 0 ends its task as
\* a success and the output file is there.
C14_ToolExitDecidesOutput ==
    \A s \in spawned :
        /\ s.rc # 0 => /\ task[s.task].st = "failed"
                       /\ task[s.task].err = "Compression error: stderr"
                       /\ s.target \notin fsFiles
        /\ s.rc = 0 => /\ task[s.task].st = "ok"
                       /\ s.target \in fsFiles

\* C14's case: in one run a tool failed on a file whose output path held an
\* earlier output, and a tool succeeded on another file.
C14_Witness ==
    \E s1, s2 \in spawned :
        /\ s1.rc # 0 /\ s1.target \in FilePaths(listing)
        /\ s2.rc = 0

\* C15: under every interleaving of the workers' get_tool_path calls, an
\* entry of the tool-path cache never changes and never disappears, and
\* every call that returned a path for a tool returned the same path, also
\* when several workers passed the membership test before the first write.
C15_ToolCacheIdempotent ==
    /\ [](\A s1, s2 \in spawned : s1.exe = s2.exe)
    /\ [](\A s \in spawned : /\ ToolName(cfg) \in DOMAIN toolCache
                             /\ s.exe = toolCache[ToolName(cfg)])
    /\ [][\A n \in DOMAIN toolCache :
             /\ n \in DOMAIN toolCache'
             /\ toolCache'[n] = toolCache[n]]_vars

\* C15's case: a worker that missed the cache is about to write an entry that
\* another worker has written since, and whose path a tool was started with.
C15_Witness ==
    /\ ToolName(cfg) \in DOMAIN toolCache
    /\ spawned # {}
    /\ \E k \in DOMAIN task : task[k].st = "lookup"

C17_OneTerminalSignal ==
    /\ finishedEmitted + Len(errorEmitted) <= 1
    /\ finishedEmitted = 1 <=> (pc = "done" /\ exc = "")
    /\ Len(errorEmitted) = 1 <=> (pc = "done" /\ exc # "")
    /\ Len(sigQueue) <= 1

\* C17's case: a run in which two tasks failed has ended with one
\* error_occurred and no finished.
C17_Witness ==
    /\ pc = "done"
    /\ Cardinality(FailedTasks) >= 2
    /\ Len(errorEmitted) = 1
    /\ finishedEmitted = 0

\* C18: whenever a PNG file task has ended in failure after its picture was
\* saved, the tool's executable missing or the tool exiting non-zero, no
\* file is at the task's output path.
C18_FailedPngLeavesNoOutput ==
    \A k \in DOMAIN task :
        ( /\ StrategyFor(files[k].path) = "png"
          /\ task[k].st = "failed"
          /\ task[k].err \in {"tool not found in tools directory",
                              "Compression error: stderr"} )
        => OutputOf(k) \notin fsFiles

\* C19: every file task is submitted before the first cancellation check,
\* and cancellation takes no task out of the pool: once the cancellation is
\* observed a task that has not started is still in the pool's queue, and
\* when the run ends every task has been started and has run to its end.
C19_CancelKeepsSubmittedTasks ==
    /\ (pc = "check" \/ cancelObserved) =>
          \A k \in 1..Len(files) : k \in DOMAIN task /\ task[k].submitted = 1
    /\ cancelObserved =>
          \A k \in DOMAIN task :
              task[k].st = "queued" => \E i \in 1..Len(workQueue) : workQueue[i] = k
    /\ (cancelObserved /\ pc \in {"finished", "done"}) =>
          \A k \in DOMAIN task : IsDone(k) /\ task[k].started = 1

\* C19's case: the cancellation was observed and the loop left while a
\* submitted task had not started.
C19_Witness ==
    /\ cancelObserved
    /\ pc = "shutdown"
    /\ \E k \in DOMAIN task : task[k].st = "queued"

\* C20: a run over a valid configuration whose collection is empty emits no
\* progress and no ETA event, never reaches the steps that divide by the
\* total, raises and reports no error, and has emitted finished when it ends.
C20_EmptyRunFinishesClean ==
    ( /\ pc \notin {"idle", "validate", "collect"}
      /\ ValidateConfig(cfg, dirExists) = ""
      /\ total = 0 )
    => /\ progressEvents = <<>> /\ etaEvents = 0
       /\ pc \in {"submit", "wait", "shutdown", "finished", "done"}
       /\ exc = "" /\ errorEmitted = <<>> /\ errors = <<>>
       /\ pc = "done" => finishedEmitted = 1
       /\ dialog \in {"none", "success"}

\* C20's case: a directory that holds only an earlier run's output was
\* processed with a valid configuration, and the run has ended.
C20_Witness ==
    /\ pc = "done"
    /\ listing # <<>>
    /\ ValidateConfig(cfg, dirExists) = ""
    /\ total = 0
    /\ finishedEmitted = 1

====
